---------------------------- MODULE Spec2Model ----------------------------
(***************************************************************************)
(* Model of sentimetric (src/sentimetric/sentiment.py): the rule-based     *)
(* engine (class Analyzer), the remote analyzer with its fallback (class   *)
(* LLMAnalyzer), their batch calls and the module-level analyze and        *)
(* analyze_batch.                                                          *)
(*                                                                         *)
(* Specifications.                                                         *)
(*  - Spec: a caller analyses an input with the rule-based engine, then    *)
(*    appends punctuation and analyses again.                              *)
(*  - SpecCalls: concurrent calls of Analyzer.analyze on one instance, one *)
(*    loop iteration at a time.                                            *)
(*  - SpecLLM: construction of LLMAnalyzer, its analyze under every        *)
(*    outcome of the request, and the batch calls, the threaded one task   *)
(*    by task.                                                             *)
(*                                                                         *)
(* Representation.                                                         *)
(*  - A Python str is a sequence of code points.  An ASCII code point is   *)
(*    the one-character TLA+ string; any other code point is named by its  *)
(*    code ("U+1F60D").  Word tokens are runs of ASCII word characters and *)
(*    are held as TLA+ strings, so that they index the word tables as the  *)
(*    Python dict keys do.  Keys of the emoji tables are Python strings    *)
(*    that may hold several code points, so they are code point sequences. *)
(*  - A Python float is an exact decimal fixed-point number: an integer    *)
(*    count of 10^-5 (the finest grain the engine's products of one-       *)
(*    decimal factors reach).  The unrounded polarity, a quotient, is kept *)
(*    as a fraction [n, d] until round(.., 4) turns it into a count of     *)
(*    10^-4.  IEEE rounding error is not modelled: it is far below every   *)
(*    threshold and rounding step except where an exact value ties with a  *)
(*    threshold (an unrounded polarity of exactly 0.15), and there the     *)
(*    float may fall on either side.                                       *)
(***************************************************************************)
EXTENDS Integers, Sequences, FiniteSets, TLC

VARIABLES
    text,       \* the caller's input string
    pc,         \* "idle" before the call, "done" after it returned; in
                \* SpecLLM also "ready", "batch" and "raised"
    entry,      \* the entry point that produced result
    result,     \* the SentimentResult returned last (NoResult before)
    prev,       \* the result of the call before the last edit of text
    lastOp,     \* what the caller did last: "none", "analyze", "excl", "quest";
                \* in SpecLLM also "construct" and "analyze_batch"
    appended,   \* how many characters the caller appended so far
    shared,     \* the Analyzer instance concurrent calls share (SpecCalls)
    frames,     \* the frames of those calls of Analyzer.analyze (SpecCalls)
    env,        \* the value of ANTHROPIC_API_KEY in the environment (SpecLLM)
    llm,        \* the LLMAnalyzer instance the caller holds (SpecLLM)
    raised,     \* the exception that reached the caller, or "None" (SpecLLM)
    remote,     \* the outcome of the request of the last call (SpecLLM)
    batch       \* the analyze_batch call in progress or returned (SpecLLM)

\* The variables of the remote analyzer and of the batch calls.
llmVars == <<env, llm, raised, remote, batch>>

vars == <<text, pc, entry, result, prev, lastOp, appended, shared, frames,
          env, llm, raised, remote, batch>>

-----------------------------------------------------------------------------
(* Bounds of the model *)

\* Longest input, in fragments, that Init draws.
MaxFrags == 3
\* How many times the caller appends a punctuation mark and analyses again.
MaxAppend == 2
\* Concurrent calls of Analyzer.analyze on one shared instance.
NumCalls == 2

-----------------------------------------------------------------------------
(* Fixed-point arithmetic standing for the floats *)

\* 1.0 as a count of 10^-5.
One == 10 * 10 * 10 * 10 * 10

\* A one-decimal literal of the source (0.9 is 9 tenths) as a count of 10^-5.
FromTenths(t) == t * (One \div 10)

\* x * f for a factor f given in tenths.
TimesTenths(x, f) == (x * f) \div 10

Abs(x) == IF x < 0 THEN -x ELSE x

Min(a, b) == IF a < b THEN a ELSE b

Max(a, b) == IF a > b THEN a ELSE b

\* round(n/d) to the nearest integer, ties to even (d > 0).
RoundHalfEven(n, d) ==
    LET q == n \div d
        r == n % d
    IN  IF 2 * r > d THEN q + 1
        ELSE IF 2 * r = d THEN q + (q % 2)
        ELSE q

-----------------------------------------------------------------------------
(* Characters *)

Chars(s) == [i \in 1..Len(s) |-> SubSeq(s, i, i)]

Range(f) == {f[i] : i \in DOMAIN f}

LowerLetters == Chars("abcdefghijklmnopqrstuvwxyz")

UpperLetters == Chars("ABCDEFGHIJKLMNOPQRSTUVWXYZ")

\* Characters the regular expression class \w matches.
WordChars == Range(LowerLetters) \cup Range(UpperLetters)
                 \cup Range(Chars("0123456789_"))

\* Characters str.strip() removes.
Whitespace == {" ", "\t", "\n", "\r"}

\* The lowercase letter of each uppercase letter.
LowerOf == [c \in Range(UpperLetters) |->
               LowerLetters[CHOOSE i \in 1..Len(UpperLetters) : UpperLetters[i] = c]]

\* str.lower() on one code point.
LowerChar(c) == IF c \in DOMAIN LowerOf THEN LowerOf[c] ELSE c

\* str.lower()
Lower(t) == [i \in 1..Len(t) |-> LowerChar(t[i])]

-----------------------------------------------------------------------------
(* Analyzer.__init__: the lexicon tables.  Scores and multipliers are the   *)
(* source's one-decimal literals, in tenths.                                *)

positive_words ==
    "amazing" :> 9 @@ "awesome" :> 9 @@ "excellent" :> 9 @@ "perfect" :> 9 @@
    "outstanding" :> 9 @@ "incredible" :> 9 @@ "fantastic" :> 9 @@
    "brilliant" :> 9 @@ "wonderful" :> 9 @@ "spectacular" :> 9 @@
    "phenomenal" :> 9 @@ "superb" :> 9 @@
    "great" :> 7 @@ "good" :> 6 @@ "nice" :> 5 @@ "love" :> 8 @@ "like" :> 5 @@
    "enjoy" :> 6 @@ "helpful" :> 6 @@ "useful" :> 6 @@ "cool" :> 6 @@
    "impressive" :> 7 @@ "beautiful" :> 7 @@ "happy" :> 7 @@ "glad" :> 6 @@
    "thanks" :> 6 @@ "thank" :> 6 @@ "best" :> 8

negative_words ==
    "terrible" :> -9 @@ "horrible" :> -9 @@ "awful" :> -9 @@
    "disgusting" :> -9 @@ "pathetic" :> -9 @@ "useless" :> -8 @@
    "waste" :> -8 @@ "garbage" :> -8 @@ "trash" :> -8 @@ "worst" :> -9 @@
    "hate" :> -8 @@ "disaster" :> -8 @@ "bad" :> -6 @@ "poor" :> -6 @@
    "wrong" :> -5 @@ "disappointing" :> -7 @@ "disappointed" :> -7 @@
    "boring" :> -6 @@ "confusing" :> -5 @@ "confused" :> -5 @@
    "sucks" :> -7 @@ "shit" :> -7 @@ "crap" :> -7

slang_positive ==
    "insane" :> 8 @@ "crazy" :> 7 @@ "sick" :> 8 @@ "fire" :> 9 @@
    "lit" :> 8 @@ "dope" :> 7 @@ "goat" :> 9 @@ "beast" :> 8 @@
    "savage" :> 7 @@ "slaps" :> 8 @@ "vibes" :> 6 @@ "based" :> 6

intensifiers ==
    "very" :> 13 @@ "really" :> 13 @@ "extremely" :> 15 @@
    "absolutely" :> 15 @@ "incredibly" :> 15 @@ "so" :> 12 @@
    "super" :> 14 @@ "ultra" :> 14

diminishers ==
    "slightly" :> 5 @@ "somewhat" :> 5 @@ "fairly" :> 6 @@ "rather" :> 6 @@
    "pretty" :> 7 @@ "quite" :> 7 @@ "kinda" :> 5 @@ "sorta" :> 5

negations ==
    { "not", "no", "never", "neither", "nobody", "nothing",
      "don't", "doesn't", "didn't", "can't", "won't", "shouldn't",
      "isn't", "aren't", "wasn't", "weren't", "hasn't", "haven't",
      "without", "lack" }

\* Keys are Python strings given as code point sequences; the red heart key
\* is U+2764 followed by the variation selector U+FE0F.
emoji_positive ==
    <<"U+1F60A">> :> 7 @@ <<"U+1F600">> :> 7 @@ <<"U+1F603">> :> 7 @@
    <<"U+1F604">> :> 7 @@ <<"U+1F601">> :> 7 @@ <<"U+1F60D">> :> 9 @@
    <<"U+1F970">> :> 9 @@ <<"U+1F618">> :> 8 @@
    <<"U+2764", "U+FE0F">> :> 8 @@ <<"U+1F495">> :> 8 @@
    <<"U+1F44D">> :> 7 @@ <<"U+1F44F">> :> 7 @@ <<"U+1F64C">> :> 8 @@
    <<"U+2728">> :> 6 @@ <<"U+2B50">> :> 6 @@ <<"U+1F525">> :> 8 @@
    <<"U+1F4AF">> :> 8 @@ <<"U+1F389">> :> 7 @@ <<"U+1F602">> :> 6 @@
    <<"U+1F923">> :> 6

emoji_negative ==
    <<"U+1F622">> :> -7 @@ <<"U+1F62D">> :> -7 @@ <<"U+1F61E">> :> -6 @@
    <<"U+1F614">> :> -6 @@ <<"U+1F620">> :> -8 @@ <<"U+1F621">> :> -9 @@
    <<"U+1F92C">> :> -9 @@ <<"U+1F494">> :> -8 @@ <<"U+1F44E">> :> -7 @@
    <<"U+1F612">> :> -6 @@ <<"U+1F644">> :> -4

\* Analyzer(): the instance after construction.
NewAnalyzer ==
    [ positive_words |-> positive_words,
      negative_words |-> negative_words,
      slang_positive |-> slang_positive,
      intensifiers   |-> intensifiers,
      diminishers    |-> diminishers,
      negations      |-> negations,
      emoji_positive |-> emoji_positive,
      emoji_negative |-> emoji_negative ]

-----------------------------------------------------------------------------
(* Program constants of Analyzer.analyze *)

\* score = -score * 0.8, in tenths
NegationFactor == 8
\* sentiment_score *= 0.8 for a question mark, in tenths
QuestionFactor == 8
\* text.count('!') * 0.1, in tenths per exclamation mark
BoostPerExclamation == 1
\* min(.., 1.3), in tenths
BoostCap == 13
\* sentiment_count * 0.7, in tenths
NormFactor == 7
\* polarity > 0.15 / polarity < -0.15, in hundredths
CategoryThreshold == 15
\* max(0.3, confidence), in tenths
MinConfidence == 3
\* sentiment_count / max(1, word_count) * 2
SubjectivityFactor == 2
\* (sentiment_count / max(1, word_count)) * 3
ConfidenceFactor == 3

-----------------------------------------------------------------------------
(* Tokenizer: re.findall(r'\b\w+\b', text_lower) *)

RECURSIVE FindWordsFrom(_, _, _, _)
\* Scan from position i; cur is the run of word characters being read ("" when
\* none), acc the tokens found.  A token is a maximal run of word characters.
FindWordsFrom(t, i, cur, acc) ==
    IF i > Len(t)
    THEN IF cur = "" THEN acc ELSE Append(acc, cur)
    ELSE IF t[i] \in WordChars
         THEN FindWordsFrom(t, i + 1, cur \o t[i], acc)
         ELSE FindWordsFrom(t, i + 1, "", IF cur = "" THEN acc ELSE Append(acc, cur))

FindWords(t) == FindWordsFrom(t, 1, "", <<>>)

\* Variant: only "not text" is tested, the strip() is forgotten.
IsBlankNoStrip(t) == t = <<>>

\* not text or not text.strip()
IsBlank(t) == \A i \in 1..Len(t) : t[i] \in Whitespace

\* pat in t (substring test); pat is a non-empty code point sequence
Contains(t, pat) ==
    \E i \in 1..(Len(t) - Len(pat) + 1) : SubSeq(t, i, i + Len(pat) - 1) = pat

\* text.count(c)
Count(t, c) == Cardinality({i \in 1..Len(t) : t[i] = c})

-----------------------------------------------------------------------------
(* Scoring engine: the locals of Analyzer.analyze and its two loops *)

\* The locals as set before the word loop.  intensifier_mult is in tenths.
InitialLocals ==
    [ sentiment_score  |-> 0,
      sentiment_count  |-> 0,
      negation_active  |-> FALSE,
      intensifier_mult |-> 10 ]

\* Variant: the slang table is consulted whatever the context.
ContextAlways(text_lower) == TRUE

\* any(ind in text_lower for ind in ['!', 'thank', 'wow', 'omg'])
ContextPositive(text_lower) ==
    \E ind \in {"!", "thank", "wow", "omg"} : Contains(text_lower, Chars(ind))

\* The base score of a word that is no modifier: slang first (and then no
\* other table), else positive, else negative, else 0.0.
BaseScore(an, text_lower, word) ==
    IF word \in DOMAIN an.slang_positive
    THEN IF ContextPositive(text_lower)
         THEN FromTenths(an.slang_positive[word])
         ELSE 0
    ELSE IF word \in DOMAIN an.positive_words
    THEN FromTenths(an.positive_words[word])
    ELSE IF word \in DOMAIN an.negative_words
    THEN FromTenths(an.negative_words[word])
    ELSE 0

\* Variant: negation as a full inversion, without the 0.8 attenuation.
ModulateFullInversion(score, intensifier_mult, negation_active) ==
    LET boosted == TimesTenths(score, intensifier_mult)
    IN  IF negation_active THEN -boosted ELSE boosted

\* score *= intensifier_mult; if negation_active: score = -score * 0.8
Modulate(score, intensifier_mult, negation_active) ==
    LET boosted == TimesTenths(score, intensifier_mult)
    IN  IF negation_active
        THEN TimesTenths(-boosted, NegationFactor)
        ELSE boosted

\* Variant: a scored word leaves the modifier state as it found it.
WordStepSticky(an, text_lower, loc, word) ==
    IF word \in an.negations
    THEN [loc EXCEPT !.negation_active = TRUE]
    ELSE IF word \in DOMAIN an.intensifiers
    THEN [loc EXCEPT !.intensifier_mult = an.intensifiers[word]]
    ELSE IF word \in DOMAIN an.diminishers
    THEN [loc EXCEPT !.intensifier_mult = an.diminishers[word]]
    ELSE LET score == BaseScore(an, text_lower, word)
         IN  IF score # 0
             THEN [loc EXCEPT
                     !.sentiment_score =
                         @ + Modulate(score, loc.intensifier_mult, loc.negation_active),
                     !.sentiment_count = @ + 1]
             ELSE loc

\* One iteration of "for word in words" on the locals loc.
WordStep(an, text_lower, loc, word) ==
    IF word \in an.negations
    THEN [loc EXCEPT !.negation_active = TRUE]
    ELSE IF word \in DOMAIN an.intensifiers
    THEN [loc EXCEPT !.intensifier_mult = an.intensifiers[word]]
    ELSE IF word \in DOMAIN an.diminishers
    THEN [loc EXCEPT !.intensifier_mult = an.diminishers[word]]
    ELSE LET score == BaseScore(an, text_lower, word)
         IN  IF score # 0
             THEN [ sentiment_score  |->
                        loc.sentiment_score
                          + Modulate(score, loc.intensifier_mult, loc.negation_active),
                    sentiment_count  |-> loc.sentiment_count + 1,
                    negation_active  |-> FALSE,
                    intensifier_mult |-> 10 ]
             ELSE loc

\* Variant: an emoji scored as a word is, under the pending modifier state.
EmojiStepModulated(an, loc, char) ==
    LET key   == <<char>>
        score == IF key \in DOMAIN an.emoji_positive
                 THEN FromTenths(an.emoji_positive[key])
                 ELSE IF key \in DOMAIN an.emoji_negative
                 THEN FromTenths(an.emoji_negative[key])
                 ELSE 0
    IN  IF score # 0
        THEN [ sentiment_score  |->
                   loc.sentiment_score
                     + Modulate(score, loc.intensifier_mult, loc.negation_active),
               sentiment_count  |-> loc.sentiment_count + 1,
               negation_active  |-> FALSE,
               intensifier_mult |-> 10 ]
        ELSE loc

\* One iteration of "for char in text" on the locals loc.
EmojiStep(an, loc, char) ==
    IF <<char>> \in DOMAIN an.emoji_positive
    THEN [loc EXCEPT !.sentiment_score = @ + FromTenths(an.emoji_positive[<<char>>]),
                     !.sentiment_count = @ + 1]
    ELSE IF <<char>> \in DOMAIN an.emoji_negative
    THEN [loc EXCEPT !.sentiment_score = @ + FromTenths(an.emoji_negative[<<char>>]),
                     !.sentiment_count = @ + 1]
    ELSE loc

RECURSIVE WordLoop(_, _, _, _, _)
\* for word in words, from index i
WordLoop(an, text_lower, words, i, loc) ==
    IF i > Len(words) THEN loc
    ELSE WordLoop(an, text_lower, words, i + 1,
                  WordStep(an, text_lower, loc, words[i]))

RECURSIVE EmojiLoop(_, _, _, _)
\* for char in text, from index i
EmojiLoop(an, t, i, loc) ==
    IF i > Len(t) THEN loc
    ELSE EmojiLoop(an, t, i + 1, EmojiStep(an, loc, t[i]))

-----------------------------------------------------------------------------
(* Punctuation adjustment *)

\* Variant: the boost without its base of 1.
BoostNoBase(t) == Min(Count(t, "!") * BoostPerExclamation, BoostCap)

\* Variant: the boost without its cap.
BoostUncapped(t) == 10 + Count(t, "!") * BoostPerExclamation

\* boost = min(1 + text.count('!') * 0.1, 1.3), in tenths
Boost(t) == Min(10 + Count(t, "!") * BoostPerExclamation, BoostCap)

\* if text.count('!') > 0 and sentiment_score != 0: sentiment_score *= boost
ExclamationBoost(t, score) ==
    IF Count(t, "!") > 0 /\ score # 0
    THEN TimesTenths(score, Boost(t))
    ELSE score

\* Variant: the question mark amplifies (1.2) instead of reducing (0.8).
QuestionAmplify(t, score, count) ==
    IF Contains(t, <<"?">>) /\ count > 0
    THEN TimesTenths(score, 20 - QuestionFactor)
    ELSE score

\* if '?' in text and sentiment_count > 0: sentiment_score *= 0.8
QuestionReduction(t, score, count) ==
    IF Contains(t, <<"?">>) /\ count > 0
    THEN TimesTenths(score, QuestionFactor)
    ELSE score

-----------------------------------------------------------------------------
(* Normalizer *)

\* max(1, sentiment_count * 0.7), in tenths
NormDivisor(count) == Max(10, count * NormFactor)

\* Variant: no clamping.
ClampNone(q) == q

\* max(-1.0, min(1.0, q)) of a fraction q = [n, d], d > 0, in units of 10^-5
Clamp(q) ==
    IF q.n > One * q.d THEN [n |-> One, d |-> 1]
    ELSE IF q.n < -(One * q.d) THEN [n |-> -One, d |-> 1]
    ELSE q

\* The unrounded polarity, a fraction [n, d] in units of 10^-5.
Polarity(score, count) ==
    IF count > 0
    THEN Clamp([n |-> score * 10, d |-> NormDivisor(count)])
    ELSE [n |-> 0, d |-> 1]

\* Variant: the category is the sign of the polarity, with no neutral band.
CategorySigned(q) ==
    IF q.n > 0 THEN "positive" ELSE IF q.n < 0 THEN "negative" ELSE "neutral"

\* if polarity > 0.15 .. elif polarity < -0.15 .. else .., on the unrounded
\* polarity q
Category(q) ==
    IF q.n * 100 > CategoryThreshold * One * q.d THEN "positive"
    ELSE IF q.n * 100 < -(CategoryThreshold * One * q.d) THEN "negative"
    ELSE "neutral"

\* round(polarity, 4): a count of 10^-4
RoundPolarity(q) == RoundHalfEven(q.n, q.d * 10)

\* round(min(1.0, sentiment_count / max(1, word_count) * 2), 4)
Subjectivity(count, word_count) ==
    Min(10000, RoundHalfEven(count * SubjectivityFactor * 10000, Max(1, word_count)))

\* Variant: the confidence without its floor.
ConfidenceNoFloor(count, word_count) ==
    Min(10000, RoundHalfEven(count * ConfidenceFactor * 10000, Max(1, word_count)))

\* confidence = min(1.0, (sentiment_count / max(1, word_count)) * 3)
\* confidence = max(0.3, confidence); round(confidence, 4)
Confidence(count, word_count) ==
    Max(MinConfidence * 1000,
        Min(10000, RoundHalfEven(count * ConfidenceFactor * 10000, Max(1, word_count))))

\* SentimentResult(polarity, category, confidence, subjectivity, method);
\* the optional fields keep their default None.
SentimentResult(polarity, category, confidence, subjectivity, method) ==
    [ polarity     |-> polarity,
      category     |-> category,
      confidence   |-> confidence,
      subjectivity |-> subjectivity,
      method       |-> method,
      reasoning    |-> "None",
      emotions     |-> "None",
      tone         |-> "None" ]

\* The tail of Analyzer.analyze from "# Exclamation boost" on, given the
\* locals the two loops leave.
Finish(t, words, loc) ==
    LET boosted  == ExclamationBoost(t, loc.sentiment_score)
        adjusted == QuestionReduction(t, boosted, loc.sentiment_count)
        polarity == Polarity(adjusted, loc.sentiment_count)
    IN  SentimentResult(RoundPolarity(polarity),
                        Category(polarity),
                        Confidence(loc.sentiment_count, Len(words)),
                        Subjectivity(loc.sentiment_count, Len(words)),
                        "rule_based")

\* The lowercased text and its word tokens (the two assignments before the
\* locals are set).
Tokenize(t) ==
    LET text_lower == Lower(t)
    IN  [ text_lower |-> text_lower, words |-> FindWords(text_lower) ]

\* Analyzer.analyze(text) on the instance an.
Analyze(an, t) ==
    IF IsBlank(t)
    THEN SentimentResult(0, "neutral", 0, 0, "rule_based")
    ELSE LET tk  == Tokenize(t)
             loc == EmojiLoop(an, t, 1,
                        WordLoop(an, tk.text_lower, tk.words, 1, InitialLocals))
         IN  Finish(t, tk.words, loc)

-----------------------------------------------------------------------------
(* Inputs *)

\* Pieces the bounded inputs are concatenated from.  Some end a word with a
\* space and some do not, so that adjacent pieces may fuse into one token.
Fragments ==
    { Chars("not "), Chars("very "), Chars("good"),
      Chars("bad "), Chars("insane "), Chars("thank"), Chars("is "),
      <<"!">>, <<" ">>, <<"U+1F60D">> }

RECURSIVE Flatten(_)
\* The concatenation of a sequence of code point sequences.
Flatten(fs) == IF fs = <<>> THEN <<>> ELSE Head(fs) \o Flatten(Tail(fs))

\* Every concatenation of at most MaxFrags fragments.
FragTexts ==
    { Flatten(fs) : fs \in UNION { [1..n -> Fragments] : n \in 0..MaxFrags } }

\* Every word of a table alone, and every scored word after every member of
\* the negation set.
LexiconWords ==
    DOMAIN positive_words \cup DOMAIN negative_words \cup DOMAIN slang_positive

LexiconTexts ==
    { Chars(w) : w \in LexiconWords \cup DOMAIN intensifiers
                      \cup DOMAIN diminishers \cup negations }
      \cup { Chars(n \o " " \o w) : n \in negations, w \in LexiconWords }

\* Every emoji key alone and after a negation.
EmojiTexts ==
    LET keys == DOMAIN emoji_positive \cup DOMAIN emoji_negative
    IN  keys \cup { Chars("not ") \o k : k \in keys }

\* The labelled inputs of Benchmark.create_test_set.
BenchmarkTexts ==
    { Chars("This is amazing! Love it!"),
      Chars("Absolutely fantastic work!"),
      Chars("Thank you so much! ") \o <<"U+1F60A">>,
      Chars("This is terrible. Complete waste."),
      Chars("I hate this so much."),
      Chars("Worst experience ever ") \o <<"U+1F621">>,
      Chars("It is what it is."),
      Chars("Okay, I guess."),
      Chars("Oh great, another bug ") \o <<"U+1F644">>,
      Chars("Yeah, real helpful buddy"),
      Chars("Sure, that makes perfect sense"),
      Chars("This is insane! Thank you!"),
      Chars("This slaps so hard ") \o <<"U+1F525">>,
      Chars("Bro this is sick!"),
      Chars("Good but expected more"),
      Chars("Not bad, actually pretty decent"),
      Chars("Not good at all"),
      Chars("Not bad!") }

\* Longer inputs that bring the normalised score next to a threshold.
ProbeTexts ==
    { Chars("This is insane"),
      Chars("not so love pretty sucks ") \o <<"U+1F60D">> \o Chars("!?"),
      Chars("not very love pretty great ") \o <<"U+1F60A">> \o Chars("!?"),
      Chars(" \t\n ") }

\* Inputs with scoreless words between a modifier and the scored words.
ModifierTexts ==
    { Chars("not is insane good good"),
      Chars("slightly the crazy bad nice"),
      Chars("never extremely sick! great bad"),
      Chars("so not it love hate") }

\* Inputs with several exclamation and question marks.
PunctuationTexts ==
    { Chars("not good?!!!"), Chars("not good??!!!!"), Chars("nice??"),
      Chars("good bad!?"), Chars("is!!?"), Chars("very bad!?!"),
      Chars("slightly nice!!!") }

Texts == FragTexts \cup LexiconTexts \cup EmojiTexts \cup BenchmarkTexts
             \cup ProbeTexts \cup ModifierTexts \cup PunctuationTexts

\* The method arguments of the module-level analyze that select the
\* rule-based engine ('auto' is the default; anything but 'llm' does).
RuleMethods == {"auto", "rule"}

NoResult == [ method |-> "none" ]

\* The value of shared where no instance is shared.
NoInstance == "None"

\* The value of llm where the caller holds no LLMAnalyzer.
NoAnalyzer == [ none |-> TRUE ]

\* The value of batch where no batch call was made.
NoBatch == [ state |-> "none" ]

\* The value of remote where no request was made.
NoOutcome == [ none |-> TRUE ]

\* The remote analyzer takes no part in the rule-based specifications.
NoLLM ==
    /\ env = "None"
    /\ llm = NoAnalyzer
    /\ raised = "None"
    /\ remote = NoOutcome
    /\ batch = NoBatch

-----------------------------------------------------------------------------
(* The caller's session: one input, analysed, then edited and analysed again *)

Init ==
    /\ text \in Texts
    /\ pc = "idle"
    /\ entry = "none"
    /\ result = NoResult
    /\ prev = NoResult
    /\ lastOp = "none"
    /\ appended = 0
    /\ shared = NoInstance
    /\ frames = <<>>
    /\ NoLLM

\* result = Analyzer().analyze(text): the session's own instance, which is
\* as constructed at every call (no statement of analyze assigns to it).
AnalyzerAnalyze ==
    /\ pc = "idle"
    /\ result' = Analyze(NewAnalyzer, text)
    /\ entry' = "Analyzer.analyze"
    /\ pc' = "done"
    /\ lastOp' = "analyze"
    /\ UNCHANGED <<text, prev, appended, shared, frames>>
    /\ UNCHANGED llmVars

\* result = analyze(text, method) with a method other than 'llm': a fresh
\* Analyzer() is built and analyses the text.
ModuleAnalyze ==
    /\ pc = "idle"
    /\ \E method \in RuleMethods :
          /\ result' = Analyze(NewAnalyzer, text)
          /\ entry' = method
    /\ pc' = "done"
    /\ lastOp' = "analyze"
    /\ UNCHANGED <<text, prev, appended, shared, frames>>
    /\ UNCHANGED llmVars

\* The caller appends c to the input and analyses it again on the same
\* instance, keeping the earlier result for comparison.
AppendAndAnalyze(c, op) ==
    /\ pc = "done"
    /\ appended < MaxAppend
    /\ text' = Append(text, c)
    /\ prev' = result
    /\ result' = Analyze(NewAnalyzer, text')
    /\ entry' = "Analyzer.analyze"
    /\ lastOp' = op
    /\ appended' = appended + 1
    /\ UNCHANGED <<pc, shared, frames>>
    /\ UNCHANGED llmVars

AppendExclamation == AppendAndAnalyze("!", "excl")

AppendQuestion == AppendAndAnalyze("?", "quest")

Next ==
    \/ AnalyzerAnalyze
    \/ ModuleAnalyze
    \/ AppendExclamation
    \/ AppendQuestion

Spec == Init /\ [][Next]_vars

-----------------------------------------------------------------------------
(* Concurrent calls of Analyzer.analyze on one shared instance, one loop     *)
(* iteration at a time.  frames[p] is the frame of call p: its argument,    *)
(* its position and its local variables.                                    *)

Calls == 1..NumCalls

\* Inputs of the concurrent calls.
CallTexts ==
    { Chars("not good"), Chars("very bad!"), Chars("so ") \o <<"U+1F60D">>,
      Chars("no?"), <<" ">> }

\* Variant: the locals kept in one place shared by all calls, as attributes
\* of the instance would be.
SharedFrame(p) == 1

\* The frame that holds the locals of call p: each activation of analyze has
\* its own (they are local variables, not attributes of the instance).
FrameOf(p) == p

NewFrame(t) ==
    [ text       |-> t,
      pc         |-> "call",
      text_lower |-> <<>>,
      words      |-> <<>>,
      i          |-> 0,
      loc        |-> InitialLocals,
      result     |-> NoResult ]

InitCalls ==
    /\ shared = NewAnalyzer
    /\ frames \in [Calls -> {NewFrame(t) : t \in CallTexts}]
    /\ text = <<>>
    /\ pc = "idle"
    /\ entry = "none"
    /\ result = NoResult
    /\ prev = NoResult
    /\ lastOp = "none"
    /\ appended = 0
    /\ NoLLM

\* The locals call p reads.
LocalsOf(p) == frames[FrameOf(p)].loc

\* frames with the locals of call p set to loc and its position to (pc, i).
Stepped(p, loc, newpc, newi) ==
    [ [frames EXCEPT ![FrameOf(p)].loc = loc]
          EXCEPT ![p].pc = newpc, ![p].i = newi ]

\* Entry of analyze up to the first loop: the blank test, lowercasing,
\* tokenizing and the initialisation of the locals.
Enter(p) ==
    /\ frames[p].pc = "call"
    /\ IF IsBlank(frames[p].text)
       THEN frames' = [frames EXCEPT
                ![p].pc = "done",
                ![p].result = SentimentResult(0, "neutral", 0, 0, "rule_based")]
       ELSE LET tk == Tokenize(frames[p].text)
            IN  frames' = [ Stepped(p, InitialLocals, "words", 1)
                              EXCEPT ![p].text_lower = tk.text_lower,
                                     ![p].words = tk.words ]
    /\ UNCHANGED <<text, pc, entry, result, prev, lastOp, appended, shared>>
    /\ UNCHANGED llmVars

\* One iteration of the word loop, or its exit.
WordIteration(p) ==
    /\ frames[p].pc = "words"
    /\ IF frames[p].i > Len(frames[p].words)
       THEN frames' = Stepped(p, LocalsOf(p), "emoji", 1)
       ELSE frames' = Stepped(p,
                          WordStep(shared, frames[p].text_lower, LocalsOf(p),
                                   frames[p].words[frames[p].i]),
                          "words", frames[p].i + 1)
    /\ UNCHANGED <<text, pc, entry, result, prev, lastOp, appended, shared>>
    /\ UNCHANGED llmVars

\* One iteration of the character loop, or its exit.
EmojiIteration(p) ==
    /\ frames[p].pc = "emoji"
    /\ IF frames[p].i > Len(frames[p].text)
       THEN frames' = Stepped(p, LocalsOf(p), "finish", 0)
       ELSE frames' = Stepped(p,
                          EmojiStep(shared, LocalsOf(p), frames[p].text[frames[p].i]),
                          "emoji", frames[p].i + 1)
    /\ UNCHANGED <<text, pc, entry, result, prev, lastOp, appended, shared>>
    /\ UNCHANGED llmVars

\* Punctuation adjustment, normalisation and return.
Return(p) ==
    /\ frames[p].pc = "finish"
    /\ frames' = [frames EXCEPT
            ![p].pc = "done",
            ![p].result = Finish(frames[p].text, frames[p].words, LocalsOf(p))]
    /\ UNCHANGED <<text, pc, entry, result, prev, lastOp, appended, shared>>
    /\ UNCHANGED llmVars

NextCalls ==
    \E p \in Calls :
        \/ Enter(p)
        \/ WordIteration(p)
        \/ EmojiIteration(p)
        \/ Return(p)

SpecCalls == InitCalls /\ [][NextCalls]_vars

-----------------------------------------------------------------------------
(* The remote analyzer, LLMAnalyzer.  None is the string "None"; a float of *)
(* a result is a count of 10^-4, as in the results of the rule-based engine. *)

\* The truth value Python gives an Optional[str]: None and '' are false.
Truthy(s) == s \notin {"None", ""}

\* a or b
Or(a, b) == IF Truthy(a) THEN a ELSE b

\* Variant: only None counts as a missing key.
MissingKeyNoneOnly(key) == key = "None"

\* not self.api_key
MissingKey(key) == ~Truthy(key)

\* LLMAnalyzer(api_key) where ANTHROPIC_API_KEY has the value e ("None" when
\* unset): the exception raised, or the instance.
LLMAnalyzerInit(api_key, e) ==
    LET key == Or(api_key, e)
    IN  IF MissingKey(key)
        THEN [ exc |-> "ValueError" ]
        ELSE [ exc |-> "None", self |-> [ api_key |-> key ] ]

\* What a statement raises, and what it evaluates to.
Raise(e) == [ exc |-> e ]

Value(v) == [ exc |-> "None", value |-> v ]

\* A float as a count of 10^-4, from tenths.
Tenths(t) == t * 1000

\* subjectivity=0.8 and the default of data.get('confidence', 0.5), in tenths.
LLMSubjectivity == 8

DefaultConfidence == 5

\* The text of a message is a sequence of parts: a code fence, white space,
\* prose, or a JSON document.  A JSON object is [dict |-> d] with d a function
\* from its keys to its values, each a number [num |-> n], a string
\* [str |-> s] or null [null |-> TRUE]; any other document is [other |-> ..].
\* A fence is three backquotes, here named by what follows them.
FenceJson == [ fence |-> "json" ]

Fence == [ fence |-> "" ]

WhiteSpace == [ ws |-> "\n" ]

RECURSIVE Replace(_, _)
\* content.replace(part, '')
Replace(content, part) ==
    IF content = <<>> THEN <<>>
    ELSE IF Head(content) = part THEN Replace(Tail(content), part)
    ELSE <<Head(content)>> \o Replace(Tail(content), part)

RECURSIVE Strip(_)
\* content.strip()
Strip(content) ==
    IF content = <<>> THEN <<>>
    ELSE IF Head(content) = WhiteSpace THEN Strip(Tail(content))
    ELSE IF content[Len(content)] = WhiteSpace
         THEN Strip(SubSeq(content, 1, Len(content) - 1))
    ELSE content

\* json.loads(content): the document, when content is one document and
\* nothing else.
JsonLoads(content) ==
    IF Len(content) = 1 /\ DOMAIN content[1] \subseteq {"dict", "other"}
    THEN Value(content[1])
    ELSE Raise("JSONDecodeError")

\* The numeric strings the responses use, as floats.
NumericStrings == [ s \in {"0.5"} |-> 5000 ]

\* float(v)
Float(v) ==
    IF "num" \in DOMAIN v THEN Value(v.num)
    ELSE IF "str" \in DOMAIN v
         THEN IF v.str \in DOMAIN NumericStrings
              THEN Value(NumericStrings[v.str])
              ELSE Raise("ValueError")
    ELSE Raise("TypeError")

\* d.get(k, default)
Get(d, k, default) == IF k \in DOMAIN d THEN d[k] ELSE default

\* d.get(k), as the value the result field holds.
Field(v) ==
    IF "str" \in DOMAIN v THEN v.str
    ELSE IF "num" \in DOMAIN v THEN v.num
    ELSE "None"

\* The try block of LLMAnalyzer.analyze where the request has outcome o:
\* [exc |-> e] when requests.post raises e, else the response
\* [status_code |-> c, body |-> b] with b the body: [kind |-> "not_json"],
\* [kind |-> "no_content"] (a JSON document without content[0].text) or
\* [kind |-> "message", text |-> parts].
Try(o) ==
    IF "exc" \in DOMAIN o THEN Raise(o.exc)
    ELSE IF o.status_code # 200 THEN Raise("Exception")
    ELSE IF o.body.kind = "not_json" THEN Raise("JSONDecodeError")
    ELSE IF o.body.kind = "no_content" THEN Raise("KeyError")
    ELSE
      LET stripped == Strip(o.body.text)
          content  == Strip(Replace(Replace(stripped, FenceJson), Fence))
          loaded   == JsonLoads(content)
      IN  IF loaded.exc # "None" THEN loaded
          ELSE IF "dict" \notin DOMAIN loaded.value
               THEN Raise("AttributeError")
          ELSE
            LET data       == loaded.value.dict
                polarity   == Float(Get(data, "polarity", [num |-> 0]))
                confidence == Float(Get(data, "confidence",
                                        [num |-> Tenths(DefaultConfidence)]))
            IN  IF polarity.exc # "None" THEN polarity
                ELSE IF confidence.exc # "None" THEN confidence
                ELSE Value(
                  [ SentimentResult(
                        polarity.value,
                        Field(Get(data, "category", [str |-> "neutral"])),
                        confidence.value,
                        Tenths(LLMSubjectivity),
                        "llm")
                    EXCEPT !.reasoning = Field(Get(data, "reasoning", [null |-> TRUE])),
                           !.emotions  = Field(Get(data, "emotions", [null |-> TRUE])),
                           !.tone      = Field(Get(data, "tone", [null |-> TRUE])) ])

\* Variant: the rule-based result returned as it is.
FallbackUnlabelled(t) == Analyze(NewAnalyzer, t)

\* The except block: the rule-based result of a fresh Analyzer, relabelled.
Fallback(t) ==
    [ Analyze(NewAnalyzer, t) EXCEPT !.method = "rule_based_fallback" ]

\* self.analyze(t) of an LLMAnalyzer where the request has outcome o.
LLMAnalyze(self, t, o) ==
    IF IsBlank(t) THEN SentimentResult(0, "neutral", 0, 0, "llm")
    ELSE LET attempt == Try(o)
         IN  IF attempt.exc # "None" THEN Fallback(t) ELSE attempt.value

-----------------------------------------------------------------------------
(* What the remote end may answer *)

\* JSON objects a message may carry: complete and valid; partially
\* populated; with values outside the data model; with a null category; with
\* a number given as a string; with a polarity float() rejects.
DataValid ==
    [ polarity   |-> [num |-> 8000],
      category   |-> [str |-> "positive"],
      confidence |-> [num |-> 9000],
      reasoning  |-> [str |-> "praise"],
      emotions   |-> [str |-> "['joy']"],
      tone       |-> [str |-> "enthusiastic"] ]

DataPartial == [ category |-> [str |-> "negative"] ]

DataOutOfRange ==
    [ polarity   |-> [num |-> 25000],
      category   |-> [str |-> "very positive"],
      confidence |-> [num |-> 17000] ]

DataBelowRange ==
    [ polarity |-> [num |-> -15000], category |-> [str |-> "negative"] ]

DataNullCategory ==
    [ polarity |-> [num |-> 3000], category |-> [null |-> TRUE] ]

DataStringNumber ==
    [ polarity |-> [str |-> "0.5"], category |-> [str |-> "positive"] ]

DataWordNumber ==
    [ polarity |-> [str |-> "high"], category |-> [str |-> "positive"] ]

DataNullNumber ==
    [ polarity |-> [num |-> 2000], confidence |-> [null |-> TRUE] ]

Datas ==
    { DataValid, DataPartial, DataOutOfRange, DataBelowRange,
      DataNullCategory, DataStringNumber, DataWordNumber, DataNullNumber }

\* The texts a message may hold: a bare object, a fenced one, an object
\* after prose, no text, and a document that is not an object.
MessageTexts ==
    { <<[dict |-> d]>> : d \in Datas }
      \cup { <<FenceJson, WhiteSpace, [dict |-> DataValid], WhiteSpace, Fence>>,
             <<WhiteSpace, [dict |-> DataOutOfRange], WhiteSpace>>,
             <<[prose |-> "Here is the analysis:"], [dict |-> DataValid]>>,
             <<>>,
             <<[other |-> "[0.8]"]>> }

Response(code, b) == [ status_code |-> code, body |-> b ]

\* Every outcome of the request: requests.post raises, or a response comes.
Outcomes ==
    { Raise("ConnectionError"), Raise("Timeout") }
      \cup { Response(code, [kind |-> "not_json"]) : code \in {401, 429, 500} }
      \cup { Response(200, [kind |-> "not_json"]),
             Response(200, [kind |-> "no_content"]) }
      \cup { Response(200, [kind |-> "message", text |-> m]) :
                 m \in MessageTexts }

\* The outcomes the items of a batch draw from.
BatchOutcomes ==
    { Raise("Timeout"),
      Response(200, [kind |-> "message", text |-> <<[dict |-> DataValid]>>]) }

\* The request of a call failed: the try block of analyze raised.
Failed(o) == Try(o).exc # "None"

-----------------------------------------------------------------------------
(* The caller's session with the remote analyzer and with the batch calls *)

\* Longest list given to analyze_batch.
MaxBatch == 3

\* max_workers: int = 5
DefaultMaxWorkers == 5

\* The api_key arguments and the values of ANTHROPIC_API_KEY.
KeyArgs == {"None", "", "sk-ant-arg"}

EnvValues == {"None", "", "sk-ant-env"}

\* The inputs of a single call.
LLMTexts ==
    { Chars("not good"), Chars("This is insane!"), Chars("so ") \o <<"U+1F60D">>,
      Chars("is"), <<" ">>, <<>> }

\* The lists given to analyze_batch.
BatchTexts == { Chars("not good"), Chars("very bad!") }

BatchInputs == UNION { [1..n -> BatchTexts] : n \in 0..MaxBatch }

\* The values of max_workers the caller passes.
WorkerCounts == {1, 2, DefaultMaxWorkers}

\* The variables of the session with the rule-based engine alone.
sessionVars == <<prev, appended, shared, frames>>

InitLLM ==
    /\ env \in EnvValues
    /\ text = <<>>
    /\ pc = "idle"
    /\ entry = "none"
    /\ result = NoResult
    /\ prev = NoResult
    /\ lastOp = "none"
    /\ appended = 0
    /\ shared = NoInstance
    /\ frames = <<>>
    /\ llm = NoAnalyzer
    /\ raised = "None"
    /\ remote = NoOutcome
    /\ batch = NoBatch

\* llm = LLMAnalyzer(api_key)
Construct ==
    /\ pc = "idle"
    /\ \E api_key \in KeyArgs :
          LET made == LLMAnalyzerInit(api_key, env)
          IN  IF made.exc # "None"
              THEN /\ raised' = made.exc
                   /\ pc' = "raised"
                   /\ llm' = llm
              ELSE /\ llm' = made.self
                   /\ pc' = "ready"
                   /\ raised' = raised
    /\ entry' = "LLMAnalyzer"
    /\ lastOp' = "construct"
    /\ UNCHANGED <<text, result, env, remote, batch>>
    /\ UNCHANGED sessionVars

\* result = llm.analyze(t)
LLMAnalyzerAnalyze ==
    /\ pc = "ready"
    /\ \E t \in LLMTexts, o \in Outcomes :
          /\ text' = t
          /\ remote' = IF IsBlank(t) THEN NoOutcome ELSE o
          /\ result' = LLMAnalyze(llm, t, o)
    /\ pc' = "done"
    /\ entry' = "LLMAnalyzer.analyze"
    /\ lastOp' = "analyze"
    /\ UNCHANGED <<env, llm, raised, batch>>
    /\ UNCHANGED sessionVars

\* result = analyze(t, method='llm')
ModuleAnalyzeLLM ==
    /\ pc = "idle"
    /\ \E t \in LLMTexts :
          LET made == LLMAnalyzerInit("None", env)
          IN  /\ text' = t
              /\ IF made.exc # "None"
                 THEN /\ raised' = made.exc
                      /\ pc' = "raised"
                      /\ UNCHANGED <<result, remote>>
                 ELSE /\ \E o \in Outcomes :
                            /\ remote' = IF IsBlank(t) THEN NoOutcome ELSE o
                            /\ result' = LLMAnalyze(made.self, t, o)
                      /\ pc' = "done"
                      /\ raised' = raised
    /\ entry' = "analyze(llm)"
    /\ lastOp' = "analyze"
    /\ UNCHANGED <<env, llm, batch>>
    /\ UNCHANGED sessionVars

\* The list comprehension of Analyzer.analyze_batch.
AnalyzerBatch(an, texts) == [i \in 1..Len(texts) |-> Analyze(an, texts[i])]

\* A batch call that returned results without a worker pool.
Returned(texts, results) ==
    [ state       |-> "returned",
      analyzer    |-> NoAnalyzer,
      texts       |-> texts,
      max_workers |-> 0,
      futures     |-> <<>>,
      collected   |-> {},
      results     |-> results ]

\* batch.results = Analyzer().analyze_batch(texts)
AnalyzerAnalyzeBatch ==
    /\ pc = "idle"
    /\ \E texts \in BatchInputs :
          batch' = Returned(texts, AnalyzerBatch(NewAnalyzer, texts))
    /\ pc' = "done"
    /\ entry' = "Analyzer.analyze_batch"
    /\ lastOp' = "analyze_batch"
    /\ UNCHANGED <<text, result, env, llm, raised, remote>>
    /\ UNCHANGED sessionVars

\* batch.results = analyze_batch(texts, method) with a method other than
\* 'llm' ('rule' is the default).
ModuleAnalyzeBatch ==
    /\ pc = "idle"
    /\ \E texts \in BatchInputs, method \in RuleMethods :
          /\ batch' = Returned(texts, AnalyzerBatch(NewAnalyzer, texts))
          /\ entry' = "analyze_batch(" \o method \o ")"
    /\ pc' = "done"
    /\ lastOp' = "analyze_batch"
    /\ UNCHANGED <<text, result, env, llm, raised, remote>>
    /\ UNCHANGED sessionVars

\* self.analyze_batch(texts, max_workers) of an LLMAnalyzer up to the
\* as_completed loop: results is [None] * len(texts) and one task per text
\* is submitted to a pool of max_workers threads.
Submitted(self, texts, max_workers) ==
    [ state       |-> "running",
      analyzer    |-> self,
      texts       |-> texts,
      max_workers |-> max_workers,
      futures     |-> [i \in 1..Len(texts) |-> [state |-> "pending"]],
      collected   |-> {},
      results     |-> [i \in 1..Len(texts) |-> NoResult] ]

\* llm.analyze_batch(texts, max_workers) begins.
LLMAnalyzerAnalyzeBatch ==
    /\ pc = "ready"
    /\ \E texts \in BatchInputs, max_workers \in WorkerCounts :
          batch' = Submitted(llm, texts, max_workers)
    /\ pc' = "batch"
    /\ entry' = "LLMAnalyzer.analyze_batch"
    /\ lastOp' = "analyze_batch"
    /\ UNCHANGED <<text, result, env, llm, raised, remote>>
    /\ UNCHANGED sessionVars

\* analyze_batch(texts, method='llm') begins: LLMAnalyzer() is built and its
\* analyze_batch(texts) called.
ModuleAnalyzeBatchLLM ==
    /\ pc = "idle"
    /\ \E texts \in BatchInputs :
          LET made == LLMAnalyzerInit("None", env)
          IN  IF made.exc # "None"
              THEN /\ raised' = made.exc
                   /\ pc' = "raised"
                   /\ batch' = batch
              ELSE /\ batch' = Submitted(made.self, texts, DefaultMaxWorkers)
                   /\ pc' = "batch"
                   /\ raised' = raised
    /\ entry' = "analyze_batch(llm)"
    /\ lastOp' = "analyze_batch"
    /\ UNCHANGED <<text, result, env, llm, remote>>
    /\ UNCHANGED sessionVars

\* The tasks of the batch, and those in a given state.
Tasks == IF batch.state = "none" THEN {} ELSE DOMAIN batch.futures

TasksIn(s) == {i \in Tasks : batch.futures[i].state = s}

\* A free thread of the pool takes the oldest task of the queue;
\* _analyze_delayed begins with its sleep.
WorkerStart(i) ==
    /\ pc = "batch"
    /\ i \in TasksIn("pending")
    /\ \A j \in TasksIn("pending") : i <= j
    /\ Cardinality(TasksIn("running")) < batch.max_workers
    /\ batch' = [batch EXCEPT !.futures[i] = [state |-> "running"]]
    /\ UNCHANGED <<text, pc, entry, result, lastOp, env, llm, raised, remote>>
    /\ UNCHANGED sessionVars

\* _analyze_delayed returns self.analyze(text): the future of the task holds
\* the result.
WorkerFinish(i) ==
    /\ pc = "batch"
    /\ i \in TasksIn("running")
    /\ \E o \in BatchOutcomes :
          batch' = [batch EXCEPT !.futures[i] =
                       [ state   |-> "done",
                         outcome |-> o,
                         result  |-> LLMAnalyze(batch.analyzer, batch.texts[i], o) ]]
    /\ UNCHANGED <<text, pc, entry, result, lastOp, env, llm, raised, remote>>
    /\ UNCHANGED sessionVars

\* Variant: results filled in the order the futures complete.
ResultSlotInArrival(idx, collected) == Cardinality(collected) + 1

\* results[idx] = future.result(), with idx = future_to_idx[future].
ResultSlot(idx, collected) == idx

\* One iteration of the as_completed loop, on a completed future.
Collect(i) ==
    /\ pc = "batch"
    /\ i \in TasksIn("done") \ batch.collected
    /\ batch' = [batch EXCEPT
            !.results[ResultSlot(i, batch.collected)] = batch.futures[i].result,
            !.collected = @ \cup {i}]
    /\ UNCHANGED <<text, pc, entry, result, lastOp, env, llm, raised, remote>>
    /\ UNCHANGED sessionVars

\* The loop ends when every future was yielded; the pool shuts down and
\* results is returned.
BatchReturn ==
    /\ pc = "batch"
    /\ batch.collected = Tasks
    /\ batch' = [batch EXCEPT !.state = "returned"]
    /\ pc' = "done"
    /\ UNCHANGED <<text, entry, result, lastOp, env, llm, raised, remote>>
    /\ UNCHANGED sessionVars

NextLLM ==
    \/ Construct
    \/ LLMAnalyzerAnalyze
    \/ ModuleAnalyzeLLM
    \/ AnalyzerAnalyzeBatch
    \/ ModuleAnalyzeBatch
    \/ LLMAnalyzerAnalyzeBatch
    \/ ModuleAnalyzeBatchLLM
    \/ \E i \in Tasks :
          \/ WorkerStart(i)
          \/ WorkerFinish(i)
          \/ Collect(i)
    \/ BatchReturn

SpecLLM == InitLLM /\ [][NextLLM]_vars

-----------------------------------------------------------------------------
(* Properties.  Polarity, confidence and subjectivity of a result are counts *)
(* of 10^-4 (the four decimals round(.., 4) keeps).                         *)

\* The input is empty or whitespace only.
BlankInput(t) == \A i \in 1..Len(t) : t[i] \in {" ", "\t", "\n", "\r"}

\* The input holds a positive-context signal.
HasSignal(t) ==
    LET l == Lower(t)
    IN  \/ Contains(l, <<"!">>)
        \/ Contains(l, Chars("thank"))
        \/ Contains(l, Chars("wow"))
        \/ Contains(l, Chars("omg"))

\* The word tokens of the input that are keys of the slang table.
SlangTokens(t) ==
    LET words == FindWords(Lower(t))
    IN  {i \in 1..Len(words) : words[i] \in DOMAIN slang_positive}

\* sentiment_count after both loops on input t.
ScoredCount(t) ==
    LET tk == Tokenize(t)
    IN  EmojiLoop(NewAnalyzer, t, 1,
            WordLoop(NewAnalyzer, tk.text_lower, tk.words, 1, InitialLocals)
        ).sentiment_count

\* The input before the caller's last append.
PrevText == SubSeq(text, 1, Len(text) - 1)

\* C1: for an empty or whitespace-only input, Analyzer.analyze and the
\* module-level analyze with a rule method return polarity 0.0, category
\* 'neutral', confidence 0.0 and subjectivity 0.0: the pipeline, whose
\* confidence is never below 0.3, did not run.
C1_BlankInputZeroResult ==
    (pc = "done" /\ BlankInput(text)) =>
        /\ entry \in {"Analyzer.analyze"} \cup RuleMethods
        /\ result.polarity = 0
        /\ result.category = "neutral"
        /\ result.confidence = 0
        /\ result.subjectivity = 0
        /\ result.method = "rule_based"

C1_Witness ==
    /\ pc = "done"
    /\ entry = "auto"
    /\ Len(text) > 1
    /\ BlankInput(text)

\* C2: for a non-blank input the result has -1 <= polarity <= 1,
\* 0.3 <= confidence <= 1.0 and 0 <= subjectivity <= 1.
C2_ResultRanges ==
    (pc = "done" /\ ~BlankInput(text)) =>
        /\ -10000 <= result.polarity /\ result.polarity <= 10000
        /\ 3000 <= result.confidence /\ result.confidence <= 10000
        /\ 0 <= result.subjectivity /\ result.subjectivity <= 10000

C2_Witness ==
    /\ pc = "done"
    /\ ~BlankInput(text)
    /\ result.polarity = -10000
    /\ result.subjectivity = 10000

\* C3 as stated: the category agrees with the polarity the result carries:
\* positive exactly when polarity > 0.15, negative exactly when
\* polarity < -0.15, neutral otherwise, never 'mixed'.
C3_Original ==
    pc = "done" =>
        /\ result.category = "positive" <=> result.polarity > 1500
        /\ result.category = "negative" <=> result.polarity < -1500
        /\ result.category = "neutral"  <=>
               (-1500 <= result.polarity /\ result.polarity <= 1500)

\* C3 amended: the category is decided before the polarity is rounded, so it
\* agrees with the carried polarity except at a carried polarity of exactly
\* 0.15 or -0.15: polarity > 0.15 gives positive, polarity < -0.15 gives
\* negative, a polarity strictly between gives neutral, positive needs
\* polarity >= 0.15 and negative needs polarity <= -0.15; never 'mixed'.
C3_CategoryAgreesUpToRounding ==
    pc = "done" =>
        /\ result.category \in {"positive", "negative", "neutral"}
        /\ result.polarity > 1500 => result.category = "positive"
        /\ result.polarity < -1500 => result.category = "negative"
        /\ (-1500 < result.polarity /\ result.polarity < 1500)
               => result.category = "neutral"
        /\ result.category = "positive" => result.polarity >= 1500
        /\ result.category = "negative" => result.polarity <= -1500

C3_Witness ==
    /\ pc = "done"
    /\ result.polarity = -1500
    /\ result.category = "negative"

\* The input w for each base positive word w, and the input "not w".
PositiveAlone == [t \in {Chars(w) : w \in DOMAIN positive_words} |->
                    positive_words[CHOOSE w \in DOMAIN positive_words : Chars(w) = t]]

PositiveNegated ==
    [t \in {Chars("not " \o w) : w \in DOMAIN positive_words} |->
        positive_words[CHOOSE w \in DOMAIN positive_words : Chars("not " \o w) = t]]

\* C4: every base positive word w has a score s > 0.15/0.7; analyze(w) is
\* positive with polarity s, and analyze("not " + w) is negative with
\* polarity -0.8 * s.
C4_NegationFlipsPositiveWord ==
    /\ \A w \in DOMAIN positive_words :
           NormFactor * 10 * positive_words[w] > CategoryThreshold * 10
    /\ (pc = "done" /\ text \in DOMAIN PositiveAlone) =>
           /\ result.category = "positive"
           /\ result.polarity = 1000 * PositiveAlone[text]
    /\ (pc = "done" /\ text \in DOMAIN PositiveNegated) =>
           /\ result.category = "negative"
           /\ result.polarity = -(800 * PositiveNegated[text])

C4_Witness ==
    /\ pc = "done"
    /\ text = Chars("not nice")
    /\ result.category = "negative"

WithoutSlang == [NewAnalyzer EXCEPT !.slang_positive = <<>>]

\* The input w for each slang word w.
SlangAlone == [t \in {Chars(w) : w \in DOMAIN slang_positive} |->
                 slang_positive[CHOOSE w \in DOMAIN slang_positive : Chars(w) = t]]

\* C6: a slang word scores only when the input holds '!', 'thank', 'wow' or
\* 'omg'.  Without a signal the result is that of an analyzer with no slang
\* table (the word is one more unknown token); a slang word alone scores
\* nothing and is not counted, and once '!' is appended it scores its table
\* value; no slang word is a key of the positive or negative table;
\* analyze('This is insane') is not positive and
\* analyze('This is insane! Thank you!') is.
C6_SlangContextGating ==
    /\ DOMAIN slang_positive
          \cap (DOMAIN positive_words \cup DOMAIN negative_words) = {}
    /\ (pc = "done" /\ ~HasSignal(text)) => result = Analyze(WithoutSlang, text)
    /\ (pc = "done" /\ text \in DOMAIN SlangAlone) =>
           /\ result.polarity = 0
           /\ result.subjectivity = 0
    /\ (lastOp = "excl" /\ PrevText \in DOMAIN SlangAlone) =>
           /\ result.polarity = Min(10000, 1100 * SlangAlone[PrevText])
           /\ result.subjectivity = 10000
    /\ (pc = "done" /\ text = Chars("This is insane")) => result.polarity <= 0
    /\ (pc = "done" /\ text = Chars("This is insane! Thank you!"))
           => result.polarity > 0

C6_Witness ==
    /\ lastOp = "excl"
    /\ PrevText = Chars("insane")
    /\ prev.polarity = 0
    /\ result.polarity = 8800

\* C7 as stated: appending '!' to any text never decreases |polarity|.
C7_Original ==
    lastOp = "excl" => Abs(result.polarity) >= Abs(prev.polarity)

\* C7 amended: appending '!' to a text that has no slang word token, or that
\* already holds a positive-context signal, never decreases |polarity|.
C7_ExclamationMonotoneOutsideSlangGate ==
    (lastOp = "excl" /\ (HasSignal(PrevText) \/ SlangTokens(PrevText) = {}))
        => Abs(result.polarity) >= Abs(prev.polarity)

C7_Witness ==
    /\ lastOp = "excl"
    /\ SlangTokens(PrevText) # {}
    /\ HasSignal(PrevText)
    /\ prev.polarity # 0
    /\ Abs(result.polarity) > Abs(prev.polarity)

\* C8: appending '?' to a text that holds no '?' never increases |polarity|,
\* and a positive polarity does not turn negative nor a negative one positive.
C8_QuestionMonotone ==
    (lastOp = "quest" /\ ~Contains(PrevText, <<"?">>)) =>
        /\ Abs(result.polarity) <= Abs(prev.polarity)
        /\ prev.polarity > 0 => result.polarity >= 0
        /\ prev.polarity < 0 => result.polarity <= 0

C8_Witness ==
    /\ lastOp = "quest"
    /\ ~Contains(PrevText, <<"?">>)
    /\ prev.polarity < 0
    /\ result.polarity < 0
    /\ result.polarity > prev.polarity

\* The base score of each scored word of the positive and negative tables.
PlainScore == [w \in DOMAIN positive_words \cup DOMAIN negative_words |->
                 IF w \in DOMAIN positive_words
                 THEN positive_words[w] ELSE negative_words[w]]

\* The input "n w" for each member n of the negation set and each word w of
\* the positive and negative tables, paired with the score of w.
NegatedPairs ==
    { <<Chars(n \o " " \o w), PlainScore[w]>> :
          n \in negations, w \in DOMAIN PlainScore }

NegatedInputs ==
    [t \in {pr[1] : pr \in NegatedPairs} |->
        (CHOOSE pr \in NegatedPairs : pr[1] = t)[2]]

\* C9: every member of the negation set, contractions included, negates the
\* next scored word: analyze(n + " " + w) has polarity -0.8 * s for the score
\* s of w.
C9_EveryNegationNegates ==
    (pc = "done" /\ text \in DOMAIN NegatedInputs) =>
        result.polarity = -(800 * NegatedInputs[text])

\* C10: calls of analyze on one shared instance, interleaved in any way,
\* leave the instance as constructed and each return what a solitary call on
\* the same text returns.
C10_CallsIndependent ==
    /\ shared = NewAnalyzer
    /\ \A p \in Calls :
           frames[p].pc = "done" =>
               frames[p].result = Analyze(NewAnalyzer, frames[p].text)

C10_Witness ==
    /\ frames[1].pc = "done"
    /\ frames[1].text = Chars("not good")
    /\ frames[NumCalls].pc = "words"
    /\ frames[NumCalls].i = 2
    /\ frames[NumCalls].loc.intensifier_mult = 13

\* The entry points of the remote analyzer's batch.
LLMBatchEntries == {"LLMAnalyzer.analyze_batch", "analyze_batch(llm)"}

\* C11: analyze_batch of Analyzer and of LLMAnalyzer return a list as long
\* as texts whose element i is the result of analysing texts[i]; in the
\* threaded batch this holds for every completion order and every set of
\* failing items: a slot is filled only with the result of its own item, an
\* item whose request failed resolves to its own fallback result, and no
\* slot of the returned list is None.
C11_BatchOrderPreserved ==
    batch.state # "none" =>
        /\ Len(batch.results) = Len(batch.texts)
        /\ \A i \in 1..Len(batch.texts) :
               IF entry \notin LLMBatchEntries
               THEN batch.results[i] = Analyze(NewAnalyzer, batch.texts[i])
               ELSE IF i \in batch.collected
               THEN /\ batch.results[i] =
                         LLMAnalyze(batch.analyzer, batch.texts[i],
                                    batch.futures[i].outcome)
                    /\ Failed(batch.futures[i].outcome) =>
                         /\ batch.results[i].method = "rule_based_fallback"
                         /\ batch.results[i].polarity =
                                Analyze(NewAnalyzer, batch.texts[i]).polarity
               ELSE batch.results[i] = NoResult
        /\ batch.state = "returned" =>
               \A i \in 1..Len(batch.texts) : batch.results[i] # NoResult

\* The third item failed and was collected while the second, which
\* succeeded, is not yet collected and the first is still running.
C11_Witness ==
    /\ pc = "batch"
    /\ Len(batch.texts) = 3
    /\ batch.texts[3] # batch.texts[2]
    /\ batch.futures[1].state = "running"
    /\ batch.futures[2].state = "done"
    /\ batch.collected = {3}
    /\ Failed(batch.futures[3].outcome)
    /\ ~Failed(batch.futures[2].outcome)

\* The text of a message is one JSON object once fences and surrounding
\* white space are removed.
ParseableObject(parts) ==
    LET kept == {i \in 1..Len(parts) :
                    parts[i] \notin {FenceJson, Fence, WhiteSpace}}
    IN  /\ Cardinality(kept) = 1
        /\ \A i \in kept : "dict" \in DOMAIN parts[i]

\* A failure of the request: a network error or timeout, a status other
\* than 200, a body that is not JSON or lacks content[0].text, a text that
\* is not a JSON object.
RequestFailed(o) ==
    \/ "exc" \in DOMAIN o
    \/ /\ "status_code" \in DOMAIN o
       /\ \/ o.status_code # 200
          \/ o.body.kind # "message"
          \/ ~ParseableObject(o.body.text)

\* C12: when the request of LLMAnalyzer.analyze fails (network error or
\* timeout, non-200 status, a response that is not parseable JSON or lacks
\* the expected structure), the call does not raise and returns the polarity,
\* category, confidence and subjectivity of Analyzer.analyze(text) with
\* method 'rule_based_fallback' and no reasoning, emotions or tone.
C12_FallbackOnFailure ==
    (pc = "done" /\ entry = "LLMAnalyzer.analyze" /\ RequestFailed(remote)) =>
        LET rule == Analyze(NewAnalyzer, text)
        IN  /\ raised = "None"
            /\ result.polarity = rule.polarity
            /\ result.category = rule.category
            /\ result.confidence = rule.confidence
            /\ result.subjectivity = rule.subjectivity
            /\ result.method = "rule_based_fallback"
            /\ result.reasoning = "None"
            /\ result.emotions = "None"
            /\ result.tone = "None"

\* A 200 response whose text is prose followed by an object: json.loads
\* raises, and the negative rule-based result of "not good" comes back.
C12_Witness ==
    /\ pc = "done"
    /\ entry = "LLMAnalyzer.analyze"
    /\ text = Chars("not good")
    /\ "status_code" \in DOMAIN remote
    /\ remote.status_code = 200
    /\ remote.body.kind = "message"
    /\ Len(remote.body.text) = 2
    /\ "prose" \in DOMAIN remote.body.text[1]
    /\ result.method = "rule_based_fallback"
    /\ result.category = "negative"

\* The module-level entry points called with method='llm'.
LLMEntryPoints == {"analyze(llm)", "analyze_batch(llm)"}

\* C13: analyze(text, method='llm') and analyze_batch(texts, method='llm')
\* absorb every failure of the remote analyzer, a missing credential
\* included: no exception reaches their caller, and a single call whose
\* request failed returns the rule-based fallback result.
C13_EntryPointsAbsorbFailures ==
    entry \in LLMEntryPoints =>
        /\ raised = "None"
        /\ pc # "raised"
        /\ (pc = "done" /\ entry = "analyze(llm)" /\ RequestFailed(remote)) =>
               result = [ Analyze(NewAnalyzer, text)
                            EXCEPT !.method = "rule_based_fallback" ]

\* No key: None or the empty string.
NoKey == {"None", ""}

\* C14: a missing credential (no api_key argument and no ANTHROPIC_API_KEY,
\* or an empty one) is reported by ValueError at the construction of
\* LLMAnalyzer and never later: every instance that exists, the caller's or
\* the one a batch runs on, holds a non-empty api_key; ValueError is the
\* only exception, it leaves no instance, and no request, result or batch
\* exists when it is raised.
C14_MissingKeyAtConstruction ==
    /\ llm # NoAnalyzer => llm.api_key \notin NoKey
    /\ (batch.state = "running") => batch.analyzer.api_key \notin NoKey
    /\ (llm # NoAnalyzer /\ env \in NoKey) => llm.api_key = "sk-ant-arg"
    /\ (pc = "ready") <=> (llm # NoAnalyzer /\ lastOp = "construct")
    /\ (raised # "None") <=> (pc = "raised")
    /\ pc = "raised" =>
           /\ raised = "ValueError"
           /\ env \in NoKey
           /\ llm = NoAnalyzer
           /\ remote = NoOutcome
           /\ result = NoResult
           /\ batch = NoBatch

\* LLMAnalyzer(api_key) raised ValueError where the environment holds an
\* empty ANTHROPIC_API_KEY.
C14_Witness ==
    /\ entry = "LLMAnalyzer"
    /\ lastOp = "construct"
    /\ env = ""
    /\ raised = "ValueError"
    /\ llm = NoAnalyzer

\* The categories of the data model.
Categories == {"positive", "negative", "neutral", "mixed"}

\* C15: every result LLMAnalyzer.analyze returns, whatever the response
\* holds (fields absent, out of range or partially populated), has polarity
\* in [-1, 1] and a category among positive, negative, neutral and mixed.
C15_LLMResultConforms ==
    (pc = "done" /\ entry \in {"LLMAnalyzer.analyze", "analyze(llm)"}) =>
        /\ result.polarity \in -10000..10000
        /\ result.category \in Categories

\* The modifier tokens.
ModifierWords == negations \cup DOMAIN intensifiers \cup DOMAIN diminishers

RECURSIVE TrailFrom(_, _, _, _)
\* trail extended by the locals after each word token from index i on.
TrailFrom(text_lower, words, i, trail) ==
    IF i > Len(words) THEN trail
    ELSE TrailFrom(text_lower, words, i + 1,
                   Append(trail, WordStep(NewAnalyzer, text_lower,
                                          trail[Len(trail)], words[i])))

\* The locals of the word loop on input t: entry k + 1 holds them after the
\* first k word tokens.
LocalsTrail(t) ==
    LET tk == Tokenize(t)
    IN  TrailFrom(tk.text_lower, tk.words, 1, <<InitialLocals>>)

\* The locals after the first k word tokens of input t.
LocalsAfter(t, k) == LocalsTrail(t)[k + 1]

\* The score the tables give word w in input t, in tenths: 0 for a word of no
\* table and for a slang word in an input without a positive-context signal.
TableScore(t, w) ==
    IF w \in DOMAIN slang_positive
    THEN IF HasSignal(t) THEN slang_positive[w] ELSE 0
    ELSE IF w \in DOMAIN PlainScore THEN PlainScore[w]
    ELSE 0

\* The modifier state of locals.
ModifierState(loc) == <<loc.negation_active, loc.intensifier_mult>>

\* C16: the modifier state set by a negation, intensifier or diminisher
\* persists unchanged across the following tokens without a base score
\* (unknown words, slang words without context), is applied to the first
\* following token with a nonzero base score and is reset to (false, 1.0) by
\* that token: a scored token directly after it is scored unmodified.
C16_ModifierStateMachine ==
    (pc = "done" /\ lastOp = "analyze" /\ ~BlankInput(text)) =>
        LET tk    == Tokenize(text)
            words == tk.words
            trail == TrailFrom(tk.text_lower, words, 1, <<InitialLocals>>)
        IN  \A k \in 1..Len(words) :
               LET pre  == trail[k]
                   post == trail[k + 1]
                   base == TableScore(text, words[k])
               IN  /\ (words[k] \notin ModifierWords /\ base = 0) => post = pre
                   /\ (words[k] \notin ModifierWords /\ base # 0) =>
                          /\ post.sentiment_count = pre.sentiment_count + 1
                          /\ post.sentiment_score - pre.sentiment_score =
                                 base * pre.intensifier_mult * 100
                                   * (IF pre.negation_active THEN -8 ELSE 10)
                          /\ ModifierState(post) = <<FALSE, 10>>
                   /\ words[k] \in negations =>
                          post = [pre EXCEPT !.negation_active = TRUE]
                   /\ words[k] \in DOMAIN intensifiers =>
                          post = [pre EXCEPT !.intensifier_mult = intensifiers[words[k]]]
                   /\ words[k] \in DOMAIN diminishers =>
                          post = [pre EXCEPT !.intensifier_mult = diminishers[words[k]]]

\* "not is insane good good": the negation is still pending after the
\* unknown word and the slang word without context, the first "good" scores
\* -0.48 and resets it, the second scores +0.6.
C16_Witness ==
    /\ pc = "done"
    /\ text = Chars("not is insane good good")
    /\ ModifierState(LocalsAfter(text, 3)) = <<TRUE, 10>>
    /\ LocalsAfter(text, 3).sentiment_count = 0
    /\ LocalsAfter(text, 4).sentiment_score = -48000
    /\ ModifierState(LocalsAfter(text, 4)) = <<FALSE, 10>>
    /\ LocalsAfter(text, 5).sentiment_score = 12000
    /\ result.polarity = 857

\* The locals the word loop leaves on input t.
WordLocals(t) ==
    LET tk == Tokenize(t)
    IN  WordLoop(NewAnalyzer, tk.text_lower, tk.words, 1, InitialLocals)

\* The locals after both loops on input t.
LoopLocals(t) == EmojiLoop(NewAnalyzer, t, 1, WordLocals(t))

\* How many code points of t are c.
Occurrences(t, c) == Cardinality({i \in 1..Len(t) : t[i] = c})

\* S * min(1 + 0.1 n, 1.3) * (0.8 if q), as a count of 10^-7.
ComposedScore(S, n, q) ==
    S * (IF 10 + n < 13 THEN 10 + n ELSE 13) * (IF q THEN 8 ELSE 10)

\* C17: the punctuation adjustment is one step after the loops: with n '!'
\* in the input and accumulated score S, the adjusted score is
\* S * min(1 + 0.1 n, 1.3), times 0.8 once when the input holds a '?' and a
\* token was scored, both factors together when both marks occur, and 0 when
\* S = 0; so appending a '!' to three or more, or a '?' to one or more,
\* changes nothing.
C17_PunctuationComposes ==
    (pc = "done" /\ ~BlankInput(text)) =>
        LET loc      == LoopLocals(text)
            n        == Occurrences(text, "!")
            q        == Occurrences(text, "?") > 0 /\ loc.sentiment_count > 0
            composed == ComposedScore(loc.sentiment_score, n, q)
            adjusted == composed \div 100
            polarity == Polarity(adjusted, loc.sentiment_count)
        IN  /\ adjusted * 100 = composed
            /\ loc.sentiment_score = 0 => adjusted = 0
            /\ result.polarity = RoundPolarity(polarity)
            /\ result.category = Category(polarity)
            /\ (lastOp = "excl" /\ Occurrences(PrevText, "!") >= 3) =>
                   result = prev
            /\ (lastOp = "quest" /\ Occurrences(PrevText, "?") >= 1) =>
                   result = prev

\* "not good?!!!" with a fourth and a fifth '!' appended: -0.48 * 1.3 * 0.8,
\* as with three.
C17_Witness ==
    /\ pc = "done"
    /\ lastOp = "excl"
    /\ appended = 2
    /\ text = Chars("not good?!!!!!")
    /\ result.polarity = -4992
    /\ prev.polarity = -4992
    /\ LoopLocals(text).sentiment_score = -48000

\* The score of each emoji key that is one code point, in tenths.
EmojiScores ==
    [c \in {k[1] : k \in {e \in DOMAIN emoji_positive \cup DOMAIN emoji_negative :
                              Len(e) = 1}} |->
        IF <<c>> \in DOMAIN emoji_positive
        THEN emoji_positive[<<c>>] ELSE emoji_negative[<<c>>]]

\* The positions of input t that hold such an emoji.
EmojiAt(t) == {i \in 1..Len(t) : t[i] \in DOMAIN EmojiScores}

RECURSIVE SumScores(_, _)
\* The sum of the scores of the emoji at the positions ps of t, in tenths.
SumScores(t, ps) ==
    IF ps = {} THEN 0
    ELSE LET i == CHOOSE j \in ps : TRUE
         IN  EmojiScores[t[i]] + SumScores(t, ps \ {i})

\* C18: emoji scoring is independent of the modifier state of the words:
\* the emoji of the input add their table scores to the score and one each
\* to the count whether or not a negation, intensifier or diminisher is
\* pending, and leave negation_active and intensifier_mult as the word loop
\* left them; 'not' before an emoji of score 0.9 leaves it at +0.9.
C18_EmojiIgnoresModifiers ==
    (pc = "done" /\ lastOp = "analyze" /\ ~BlankInput(text)) =>
        LET before == WordLocals(text)
            after  == EmojiLoop(NewAnalyzer, text, 1, before)
        IN  /\ after.sentiment_score =
                   before.sentiment_score
                     + FromTenths(SumScores(text, EmojiAt(text)))
            /\ after.sentiment_count =
                   before.sentiment_count + Cardinality(EmojiAt(text))
            /\ ModifierState(after) = ModifierState(before)
            /\ ( /\ Len(text) = 5
                 /\ SubSeq(text, 1, 4) = Chars("not ")
                 /\ text[5] \in DOMAIN EmojiScores ) =>
                   /\ result.polarity = Analyze(NewAnalyzer, <<text[5]>>).polarity
                   /\ (result.polarity > 0) <=> (EmojiScores[text[5]] > 0)

\* "not" before the emoji U+1F60D: the negation is pending when the emoji
\* is scored +0.9, and is pending still.
C18_Witness ==
    /\ pc = "done"
    /\ text = Chars("not ") \o <<"U+1F60D">>
    /\ WordLocals(text).negation_active
    /\ WordLocals(text).sentiment_count = 0
    /\ LoopLocals(text).sentiment_score = FromTenths(9)
    /\ LoopLocals(text).negation_active
    /\ result.category = "positive"

\* The keys of the two emoji tables with their scores, in tenths.
EmojiKeyScores ==
    [k \in DOMAIN emoji_positive \cup DOMAIN emoji_negative |->
        IF k \in DOMAIN emoji_positive
        THEN emoji_positive[k] ELSE emoji_negative[k]]

\* C19: every key of emoji_positive and emoji_negative is a single
\* character, so that each listed emoji occurring in the input is matched by
\* the scan over its characters and adds its score and a count of one.
C19_EveryEmojiKeyMatched ==
    (pc = "done" /\ text \in DOMAIN EmojiKeyScores) =>
        /\ Len(text) = 1
        /\ LoopLocals(text).sentiment_count = 1
        /\ LoopLocals(text).sentiment_score = FromTenths(EmojiKeyScores[text])
        /\ (result.polarity > 0) <=> (EmojiKeyScores[text] > 0)

=============================================================================
